---- MODULE Spec2Model ----
(***************************************************************************)
(* Model of src/src/server.js: the catch-all GET route that serves the SPA *)
(* entry document to humans and a generated SEO document to crawlers, and  *)
(* the on-disk image cache compressImageFromUrl it uses.                   *)
(*                                                                         *)
(* A request is handled by one async function.  The code between two       *)
(* `await`s runs without interruption on the event loop, so each action    *)
(* below is one such uninterrupted stretch: the synchronous prefix of the  *)
(* handler, and the continuation after each awaited outbound call.         *)
(*                                                                         *)
(* Strings of the program are TLA+ strings.  A URL is the sequence of its  *)
(* lexical tokens ("/", "?", "=", words), a file path the sequence of its  *)
(* components.                                                             *)
(***************************************************************************)
EXTENDS Naturals, Sequences, FiniteSets, TLC

VARIABLES
    env,      \* process.env.APP_BASE_URL (Undefined when not configured)
    fs,       \* files of COMPRESSED_DIR: file name -> "absent"|"partial"|"complete"
    pc,       \* per request: position of its handler
    req,      \* per request: the inbound request (isBot, url)
    loc,      \* per request: the handler's local variables
    up,       \* per request: what the outbound calls returned so far
    res       \* per request: the responses sent, in order

vars == <<env, fs, pc, req, loc, up, res>>

\* Number of requests the server handles concurrently.
NumReq == 2

Reqs == 1..NumReq

(***************************************************************************)
(* JavaScript values                                                       *)
(***************************************************************************)
Undefined == "<undefined>"
Null == "<null>"

\* Boolean coercion of the values the handler tests (strings, undefined, null).
Truthy(v) == v \notin {Undefined, Null, ""}

\* a || b
Or(a, b) == IF Truthy(a) THEN a ELSE b

\* String(v) as applied by the + operator to a string operand.
ToStr(v) == IF v = Undefined THEN "undefined" ELSE IF v = Null THEN "null" ELSE v

\* a + b where at least one operand is a string.
Plus(a, b) == ToStr(a) \o ToStr(b)

(***************************************************************************)
(* Environment and inputs                                                  *)
(***************************************************************************)
AppBase == "https://app.test"
ApiBase == "https://api.test"

CompressedDir == <<"tmp", "greep-seo-images">>

SpaDocument == <<"app", "dist", "index.html">>

\* Word tokens made only of the characters [a-f0-9-].
HexWords == {"ab", "12", "-"}

\* Inbound request URLs (req.url: path and query string as sent).
Urls ==
    { <<"/", "products", "/", "ab", "-", "12">>,
      <<"/", "events", "/", "ab", "-", "12">>,
      <<"/", "shops", "/", "ab", "/">>,
      <<"/", "products", "/", "xyz">>,
      <<"/", "products", "/", "ab", "?", "resolved", "=", "true">>,
      <<"/", "shops", "/", "ab", "?", "resolved", "=">>,
      <<"/", "events", "/", "12", "?", "resolved">> }

ImageUrl1 == "https://img.test/1.png"

(***************************************************************************)
(* Request parsing and route matching                                      *)
(***************************************************************************)
RECURSIVE StripLeading(_)
StripLeading(s) ==
    IF s # <<>> /\ Head(s) = "/" THEN StripLeading(Tail(s)) ELSE s

RECURSIVE StripTrailing(_)
StripTrailing(s) ==
    IF s # <<>> /\ s[Len(s)] = "/" THEN StripTrailing(SubSeq(s, 1, Len(s) - 1)) ELSE s

\* Index of the first token t of s, 0 when there is none.
IndexOf(s, t) ==
    IF \E i \in 1..Len(s) : s[i] = t
    THEN CHOOSE i \in 1..Len(s) : s[i] = t /\ \A j \in 1..(i - 1) : s[j] # t
    ELSE 0

\* Variant of UrlPath: the slashes are stripped from the pathname (req.path),
\* which has no query string.
UrlPathOfPathname(url) ==
    LET q == IndexOf(url, "?")
    IN  StripTrailing(StripLeading(IF q = 0 THEN url ELSE SubSeq(url, 1, q - 1)))

\* req.url.replace(/^\/+|\/+$/g, ""): req.url still carries the query string.
UrlPath(url) == StripTrailing(StripLeading(url))

\* req.query[key] for a query string of at most one parameter:
\* "?k" and "?k=" give the empty string, "?k=v" gives v.
QueryParam(url, key) ==
    LET q == IndexOf(url, "?")
        qs == IF q = 0 THEN <<>> ELSE SubSeq(url, q + 1, Len(url))
    IN  IF qs = <<>> \/ qs[1] # key THEN Undefined
        ELSE IF Len(qs) >= 3 /\ qs[2] = "=" THEN qs[3]
        ELSE ""

\* The result of String.match when the pattern does not match (null); a capture
\* group of [a-f0-9-]+ is never empty.
NoMatch == <<>>

\* urlPath.match(/^<segment>\/([a-f0-9-]+)$/): the capture group, or NoMatch.
RouteMatch(urlPath, segment) ==
    IF /\ Len(urlPath) >= 3
       /\ urlPath[1] = segment
       /\ urlPath[2] = "/"
       /\ \A i \in 3..Len(urlPath) : urlPath[i] \in HexWords
    THEN SubSeq(urlPath, 3, Len(urlPath))
    ELSE NoMatch

\* uuid.split("?")[0]
SplitQuery(uuid) ==
    LET q == IndexOf(uuid, "?")
    IN  IF q = 0 THEN uuid ELSE SubSeq(uuid, 1, q - 1)

\* The characters of a token sequence as one string.
RECURSIVE Join(_)
Join(s) == IF s = <<>> THEN "" ELSE Head(s) \o Join(Tail(s))

(***************************************************************************)
(* Upstream metadata                                                       *)
(***************************************************************************)
\* Values of the `images` field (a string holding JSON) and their parse.
ImagesOne == "[{\"url\":\"https://img.test/1.png\"}]"
ImagesNoUrl == "[{}]"
ImagesBad == "not json"

\* Variant of JSONparse: text that is not JSON parses as the empty list.
JSONparseLenient(text) ==
    CASE text = ImagesOne -> [threw |-> FALSE, value |-> <<[url |-> ImageUrl1]>>]
      [] text = ImagesNoUrl -> [threw |-> FALSE, value |-> <<[url |-> Undefined]>>]
      [] OTHER -> [threw |-> FALSE, value |-> <<>>]

\* JSON.parse(text) for the image lists the upstream sends: the parsed value,
\* or threw when the text is not JSON (SyntaxError).
JSONparse(text) ==
    CASE text = "[]" -> [threw |-> FALSE, value |-> <<>>]
      [] text = ImagesOne -> [threw |-> FALSE, value |-> <<[url |-> ImageUrl1]>>]
      [] text = ImagesNoUrl -> [threw |-> FALSE, value |-> <<[url |-> Undefined]>>]
      [] OTHER -> [threw |-> TRUE, value |-> <<>>]

\* images?.[0]?.url || ""
FirstImageUrl(images) ==
    IF images = <<>> THEN "" ELSE Or(images[1].url, "")

\* `data` objects of GET /details/product/{id} (products and events).
ProductData ==
    { [name |-> "Shoe", description |-> "Nice", images |-> ImagesOne],
      [name |-> Undefined, description |-> Undefined, images |-> Undefined],
      [name |-> "", description |-> Null, images |-> ImagesNoUrl],
      [name |-> "Shoe", description |-> "Nice", images |-> ImagesBad] }

\* `data` objects of GET /details/business/{id}.
BusinessData ==
    { [business_name |-> "Cafe", description |-> "Good",
       logo |-> Undefined, photo_url |-> ImageUrl1],
      [business_name |-> Undefined, description |-> "",
       logo |-> Undefined, photo_url |-> Undefined] }

\* What axios.get of a metadata URL settles with: a rejection (network error,
\* non-2xx status) or a response whose body may lack `data`.
Rejections == { [ok |-> FALSE, why |-> "network"], [ok |-> FALSE, why |-> "status"] }

MetaReplies(endpoint) ==
    Rejections \cup
    { [ok |-> TRUE, hasData |-> FALSE] } \cup
    { [ok |-> TRUE, hasData |-> TRUE, data |-> d] :
        d \in IF endpoint = "product" THEN ProductData ELSE BusinessData }

\* `${API_BASE_URL}/details/<endpoint>/${uuidWithoutQuery}`
MetaUrl(endpoint, uuid) ==
    ApiBase \o "/details/" \o endpoint \o "/" \o Join(SplitQuery(uuid))

\* Variant of CanonicalUrl: the resolved marker is left out.
CanonicalUrlNoMarker(base, segment, uuid) ==
    base \o "/" \o segment \o "/" \o Join(uuid)

\* `${APP_BASE_URL}/<segment>/${uuid}?resolved=true`
CanonicalUrl(base, segment, uuid) ==
    base \o "/" \o segment \o "/" \o Join(uuid) \o "?resolved=true"

\* finalUrl of the branch that matched.
FinalUrl(base, branch, uuid) ==
    CASE branch = "product" -> CanonicalUrl(base, "products", uuid)
      [] branch = "event" -> CanonicalUrl(base, "products", uuid)
      [] branch = "business" -> CanonicalUrl(base, "shops", uuid)

\* contentType of the branch that matched.
ContentType(branch) ==
    CASE branch = "product" -> "product"
      [] branch = "event" -> "product"
      [] branch = "business" -> "business"

\* The upstream endpoint of the branch that matched.
Endpoint(branch) ==
    CASE branch = "product" -> "product"
      [] branch = "event" -> "product"
      [] branch = "business" -> "business"

\* title of the branch that matched; + binds tighter than ||.
Title(branch, data) ==
    CASE branch = "product" ->
            Or(Plus("Buy ", Plus(data.name, " on GreepPay")), "Product on GreepPay")
      [] branch = "event" ->
            Or(Plus("Buy ", Plus(data.name, " tickets on GreepPay")), "Event on GreepPay")
      [] branch = "business" ->
            Or(Plus(data.business_name, " on GreepPay"), "Business on GreepPay")

\* description of the branch that matched.
Description(branch, data) ==
    CASE branch = "product" ->
            Or(data.description, "Check out this amazing product on our Greep")
      [] branch = "event" ->
            Or(data.description, "Check out this amazing event on our Greep")
      [] branch = "business" ->
            Or(data.description, "Discover this business on our Greep")

\* Whether extracting the image reference throws (JSON.parse of `images`).
ImagesThrow(branch, data) ==
    branch # "business" /\ JSONparse(Or(data.images, "[]")).threw

\* originalImageUrl of the branch that matched.
OriginalImageUrl(branch, data) ==
    IF branch = "business"
    THEN Or(data.logo, Or(data.photo_url, ""))
    ELSE FirstImageUrl(JSONparse(Or(data.images, "[]")).value)

(***************************************************************************)
(* Image cache                                                             *)
(***************************************************************************)
ImageUrls == {ImageUrl1}

\* crypto.createHash("md5").update(imageUrl).digest("hex"), kept symbolic:
\* distinct URLs of the model have distinct digests.
MD5(imageUrl) == "md5(" \o imageUrl \o ")"

\* `${COMPRESSED_DIR}/${hash}.jpg`
OutputPath(imageUrl) == Append(CompressedDir, MD5(imageUrl) \o ".jpg")

\* path.basename(p)
Basename(p) == p[Len(p)]

CacheFiles == { Basename(OutputPath(u)) : u \in ImageUrls }

\* The return value null of compressImageFromUrl.
NoPath == <<>>

\* fs.existsSync(outputPath): a file that is still being written exists too.
ExistsSync(files, p) == files[Basename(p)] # "absent"

\* Variant of SelectImage: without a compressed file there is no image.
SelectImageDropsOriginal(base, compressedPath, originalImageUrl) ==
    IF compressedPath # NoPath
    THEN base \o "/seo-img/" \o Basename(compressedPath)
    ELSE ""

\* image = compressedPath ? `${APP_BASE_URL}/seo-img/${basename}` : originalImageUrl
SelectImage(base, compressedPath, originalImageUrl) ==
    IF compressedPath # NoPath
    THEN base \o "/seo-img/" \o Basename(compressedPath)
    ELSE originalImageUrl

(***************************************************************************)
(* Responses                                                               *)
(***************************************************************************)
\* res.sendFile(path.join(__dirname, "../../app/dist/index.html"))
SendFileIndex == [kind |-> "file", file |-> SpaDocument]

\* res.send(htmlContent): the fields the template interpolates.
HtmlContent(l, image) ==
    [kind |-> "html",
     title |-> l.title,
     description |-> l.description,
     ogImage |-> Or(image, "https://greep.io/"),
     ogUrl |-> l.finalUrl,
     ogType |-> IF l.contentType = "product" THEN "product" ELSE "website",
     img |-> image,
     link |-> l.finalUrl,
     linkText |-> "View " \o l.contentType \o " on Greep"]

\* res.redirect(finalUrl)
Redirect(l) == [kind |-> "redirect", location |-> l.finalUrl]

\* The respond branch: crawlers get the document, others the redirect.
Respond(isBot, l, image) ==
    IF isBot THEN HtmlContent(l, image) ELSE Redirect(l)

(***************************************************************************)
(* State                                                                   *)
(***************************************************************************)
NoRequest == [isBot |-> FALSE, url |-> <<>>]

\* let contentType = "", uuid = "", finalUrl = "", title = "", ...
NoLocals ==
    [branch |-> "", contentType |-> "", uuid |-> <<>>, finalUrl |-> "",
     title |-> "", description |-> "", originalImageUrl |-> "",
     outputPath |-> NoPath, image |-> ""]

NoReply == [ok |-> FALSE, why |-> "not called"]

\* Outbound calls of one request: the metadata GET, the image GET, the
\* existsSync result and the progress of sharp's toFile.
NoCalls ==
    [metaCalls |-> 0, metaUrl |-> "", meta |-> NoReply,
     imgCalls |-> 0, img |-> "not called",
     cache |-> "not checked", toFile |-> "not called"]

\* The state when the server starts listening.  COMPRESSED_DIR outlives the
\* process, so a file written by an earlier run may already be there.
Init ==
    /\ env \in {Undefined, AppBase}
    /\ fs \in [CacheFiles -> {"absent", "complete"}]
    /\ pc = [r \in Reqs |-> "idle"]
    /\ req = [r \in Reqs |-> NoRequest]
    /\ loc = [r \in Reqs |-> NoLocals]
    /\ up = [r \in Reqs |-> NoCalls]
    /\ res = [r \in Reqs |-> <<>>]

\* A response is sent and the handler returns.
Reply(r, response) ==
    /\ res' = [res EXCEPT ![r] = Append(@, response)]
    /\ pc' = [pc EXCEPT ![r] = "done"]

\* The branch of the if / else-if chain over productMatch, eventMatch,
\* businessMatch that a path takes ("" for the final else).
Branch(urlPath) ==
    IF RouteMatch(urlPath, "products") # NoMatch THEN "product"
    ELSE IF RouteMatch(urlPath, "events") # NoMatch THEN "event"
    ELSE IF RouteMatch(urlPath, "shops") # NoMatch THEN "business"
    ELSE ""

\* The segment whose pattern a branch matched.
Segment(branch) ==
    CASE branch = "product" -> "products"
      [] branch = "event" -> "events"
      [] branch = "business" -> "shops"

(***************************************************************************)
(* app.get("/*"): from the arrival of a request to its first await         *)
(***************************************************************************)
Receive(r) ==
    /\ pc[r] = "idle"
    /\ \E isBot \in BOOLEAN, url \in Urls :
        LET urlPath == UrlPath(url)
            urlIsResolved == QueryParam(url, "resolved")
            branch == Branch(urlPath)
            uuid == RouteMatch(urlPath, Segment(branch))
        IN  /\ req' = [req EXCEPT ![r] = [isBot |-> isBot, url |-> url]]
            /\ IF Truthy(urlIsResolved) \/ ~Truthy(env)
               THEN Reply(r, SendFileIndex) /\ UNCHANGED <<loc, up>>
               ELSE IF ~isBot
               THEN Reply(r, SendFileIndex) /\ UNCHANGED <<loc, up>>
               ELSE IF branch = ""
               THEN Reply(r, SendFileIndex) /\ UNCHANGED <<loc, up>>
               ELSE /\ loc' = [loc EXCEPT ![r] =
                                [@ EXCEPT !.branch = branch,
                                          !.contentType = ContentType(branch),
                                          !.uuid = uuid,
                                          !.finalUrl = FinalUrl(env, branch, uuid)]]
                    /\ up' = [up EXCEPT ![r] =
                                [@ EXCEPT !.metaCalls = @ + 1,
                                          !.metaUrl = MetaUrl(Endpoint(branch), uuid)]]
                    /\ pc' = [pc EXCEPT ![r] = "meta"]
                    /\ UNCHANGED res
    /\ UNCHANGED <<env, fs>>

(***************************************************************************)
(* The continuation after the metadata GET settles                         *)
(***************************************************************************)
\* Whether the try block throws before the image step: the GET rejected,
\* `data` is missing (TypeError on data.name), or `images` is not JSON.
MetaThrows(branch, reply) ==
    \/ ~reply.ok
    \/ ~reply.hasData
    \/ ImagesThrow(branch, reply.data)

\* Variant of CatchMeta: the error is logged and the handler returns without
\* sending anything.
CatchMetaSilent(r) ==
    /\ pc' = [pc EXCEPT ![r] = "done"]
    /\ UNCHANGED <<loc, res>>

\* catch (error) { ...; return res.sendFile(index.html) }
CatchMeta(r) ==
    /\ Reply(r, SendFileIndex)
    /\ UNCHANGED loc

\* The end of a branch's try block and the respond branch after it.
Render(r, l, compressedPath) ==
    LET image == SelectImage(env, compressedPath, l.originalImageUrl)
    IN  /\ loc' = [loc EXCEPT ![r] = [l EXCEPT !.image = image]]
        /\ Reply(r, Respond(req[r].isBot, l, image))

MetaSettled(r) ==
    /\ pc[r] = "meta"
    /\ \E reply \in MetaReplies(Endpoint(loc[r].branch)) :
        LET branch == loc[r].branch IN
        IF MetaThrows(branch, reply)
        THEN /\ up' = [up EXCEPT ![r] = [@ EXCEPT !.meta = reply]]
             /\ CatchMeta(r)
        ELSE LET l == [loc[r] EXCEPT
                         !.title = Title(branch, reply.data),
                         !.description = Description(branch, reply.data),
                         !.originalImageUrl = OriginalImageUrl(branch, reply.data)]
             IN  IF Truthy(l.originalImageUrl)
                 THEN \* compressImageFromUrl: await axios.get(imageUrl, ...)
                      /\ up' = [up EXCEPT ![r] =
                                  [@ EXCEPT !.meta = reply, !.imgCalls = @ + 1]]
                      /\ loc' = [loc EXCEPT ![r] = l]
                      /\ pc' = [pc EXCEPT ![r] = "image"]
                      /\ UNCHANGED res
                 ELSE /\ up' = [up EXCEPT ![r] = [@ EXCEPT !.meta = reply]]
                      /\ Render(r, l, NoPath)
    /\ UNCHANGED <<env, fs, req>>

(***************************************************************************)
(* compressImageFromUrl: the continuations after its two awaits            *)
(***************************************************************************)
\* After `await axios.get(imageUrl, ...)`: a rejection is caught and null is
\* returned; otherwise the cache is consulted and, on a miss, toFile is called.
ImageSettled(r) ==
    /\ pc[r] = "image"
    /\ \E outcome \in {"ok", "download error"} :
        LET outputPath == OutputPath(loc[r].originalImageUrl) IN
        IF outcome # "ok"
        THEN /\ up' = [up EXCEPT ![r] = [@ EXCEPT !.img = outcome]]
             /\ Render(r, loc[r], NoPath)
        ELSE IF ExistsSync(fs, outputPath)
        THEN /\ up' = [up EXCEPT ![r] = [@ EXCEPT !.img = outcome, !.cache = "hit"]]
             /\ Render(r, [loc[r] EXCEPT !.outputPath = outputPath], outputPath)
        ELSE /\ up' = [up EXCEPT ![r] =
                         [@ EXCEPT !.img = outcome, !.cache = "miss",
                                   !.toFile = "pending"]]
             /\ loc' = [loc EXCEPT ![r] = [@ EXCEPT !.outputPath = outputPath]]
             /\ pc' = [pc EXCEPT ![r] = "toFile"]
             /\ UNCHANGED res
    /\ UNCHANGED <<env, fs, req>>

\* The calls whose toFile has opened the file f and not yet settled.
Writers(f) ==
    { r \in Reqs : /\ pc[r] = "toFile"
                   /\ up[r].toFile = "open"
                   /\ Basename(loc[r].outputPath) = f }

\* sharp(...).toFile(outputPath) creates the output file at outputPath itself
\* and then writes the encoded image into it.
ToFileOpen(r) ==
    /\ pc[r] = "toFile"
    /\ up[r].toFile = "pending"
    /\ fs' = [fs EXCEPT ![Basename(loc[r].outputPath)] = "partial"]
    /\ up' = [up EXCEPT ![r] = [@ EXCEPT !.toFile = "open"]]
    /\ UNCHANGED <<env, pc, req, loc, res>>

\* toFile resolves: this call has written all its bytes; the file is whole
\* unless another call has it open for writing.  The path is returned.
ToFileDone(r) ==
    /\ pc[r] = "toFile"
    /\ up[r].toFile = "open"
    /\ LET f == Basename(loc[r].outputPath) IN
        fs' = [fs EXCEPT ![f] = IF Writers(f) = {r} THEN "complete" ELSE "partial"]
    /\ up' = [up EXCEPT ![r] = [@ EXCEPT !.toFile = "ok"]]
    /\ Render(r, loc[r], loc[r].outputPath)
    /\ UNCHANGED <<env, req>>

\* toFile rejects (the buffer does not decode, or the write fails); what was
\* written so far stays on disk.  The rejection is caught and null is returned.
ToFileFail(r) ==
    /\ pc[r] = "toFile"
    /\ up' = [up EXCEPT ![r] =
                [@ EXCEPT !.toFile = IF @ = "pending" THEN "decode error"
                                     ELSE "write error"]]
    /\ Render(r, loc[r], NoPath)
    /\ UNCHANGED <<env, fs, req>>

(***************************************************************************)
(* Specifications                                                          *)
(*                                                                         *)
(* The outermost catch of the handler (lines 255-258) has no action: every *)
(* statement of the outer try that can throw lies inside one of the three  *)
(* inner try blocks, whose catch returns.                                  *)
(***************************************************************************)
Next ==
    \E r \in Reqs :
        \/ Receive(r)
        \/ MetaSettled(r)
        \/ ImageSettled(r)
        \/ ToFileOpen(r)
        \/ ToFileDone(r)
        \/ ToFileFail(r)

Spec == Init /\ [][Next]_vars

\* A continuation of an awaited outbound call of request r.
Settle(r) ==
    \/ MetaSettled(r)
    \/ ImageSettled(r)
    \/ ToFileOpen(r)
    \/ ToFileDone(r)
    \/ ToFileFail(r)

\* Every outbound call eventually returns or fails: while some call is
\* outstanding, one of the outstanding calls eventually settles.
CallsSettle == WF_vars(\E r \in Reqs : Settle(r))

LiveSpec == Spec /\ CallsSettle

(***************************************************************************)
(* Vocabulary of the properties                                            *)
(***************************************************************************)
Done(r) == pc[r] = "done"

\* The query string of the request names the parameter `resolved`.
CarriesResolved(url) ==
    \E i \in 1..(Len(url) - 1) : url[i] = "?" /\ url[i + 1] = "resolved"

\* The path of the request: what precedes the query string, without the
\* leading and trailing slashes.
RequestPath(url) ==
    LET q == IndexOf(url, "?")
    IN  StripTrailing(StripLeading(IF q = 0 THEN url ELSE SubSeq(url, 1, q - 1)))

\* The request path is <segment>/<id> with a well-formed id.
IsEntityPath(url, segment) == RouteMatch(RequestPath(url), segment) # NoMatch

EntitySegments == {"products", "events", "shops"}

\* The canonical resolved URL of a request to an entity path.
CanonicalOf(url) ==
    LET p == RequestPath(url)
    IN  AppBase \o "/" \o p[1] \o "/" \o Join(SubSeq(p, 3, Len(p))) \o "?resolved=true"

\* The metadata GET of r has settled with a failure: a rejection, a body
\* without `data`, or an `images` string that is not JSON.
MetaFailed(r) ==
    LET m == up[r].meta IN
    /\ pc[r] \notin {"idle", "meta"}
    /\ up[r].metaCalls > 0
    /\ \/ ~m.ok
       \/ ~m.hasData
       \/ ("images" \in DOMAIN m.data /\ m.data.images = ImagesBad)

\* The metadata GET of r has settled with a well-formed body.
MetaSucceeded(r) ==
    /\ pc[r] \notin {"idle", "meta"}
    /\ up[r].metaCalls > 0
    /\ ~MetaFailed(r)

\* The image cache step of r has failed.
ImageStepFailed(r) ==
    \/ up[r].img = "download error"
    \/ up[r].toFile \in {"decode error", "write error"}

\* compressImageFromUrl has returned the cache path to r.
ReturnedPath(r) == up[r].cache = "hit" \/ up[r].toFile = "ok"

(***************************************************************************)
(* Properties                                                              *)
(***************************************************************************)

\* C1: a call of compressImageFromUrl that finds the file of its URL in the
\* cache directory has issued no outbound fetch of the image.
C1_CacheHitNoFetch ==
    \A r \in Reqs : up[r].cache = "hit" => up[r].imgCalls = 0

\* C2: a human request without the resolved marker, with APP_BASE_URL set, to
\* a product/event/business path is answered by a redirect to the canonical
\* resolved URL.
C2_HumanRedirected ==
    \A r \in Reqs :
        ( /\ Done(r)
          /\ ~req[r].isBot
          /\ env = AppBase
          /\ ~CarriesResolved(req[r].url)
          /\ \E s \in EntitySegments : IsEntityPath(req[r].url, s) )
        => res[r] = <<[kind |-> "redirect", location |-> CanonicalOf(req[r].url)]>>

\* C3: a request whose query string carries `resolved`, with any value or
\* none, is answered by the SPA entry document, and neither the metadata
\* nor the image fetch is issued for it.
C3_ResolvedServesSpa ==
    \A r \in Reqs :
        (pc[r] # "idle" /\ CarriesResolved(req[r].url))
        => /\ Done(r)
           /\ res[r] = <<SendFileIndex>>
           /\ up[r].metaCalls = 0
           /\ up[r].imgCalls = 0

\* C3 witness: a crawler's request to an entity path with an empty
\* `resolved` parameter has been answered while APP_BASE_URL is set.
C3_Witness ==
    \E r \in Reqs :
        /\ Done(r)
        /\ req[r].isBot
        /\ env = AppBase
        /\ CarriesResolved(req[r].url)
        /\ QueryParam(req[r].url, "resolved") = ""
        /\ \E s \in EntitySegments : IsEntityPath(req[r].url, s)

\* C4: when the metadata fetch of a crawler's request fails, the request is
\* answered by the SPA entry document: no document is rendered, the metadata
\* fetch is not retried and no image fetch is issued.
C4_MetaFailureServesSpa ==
    \A r \in Reqs :
        (req[r].isBot /\ MetaFailed(r))
        => /\ Done(r)
           /\ res[r] = <<SendFileIndex>>
           /\ up[r].metaCalls = 1
           /\ up[r].imgCalls = 0

\* C4 witness: one request met an `images` string that is not JSON, another
\* a rejected fetch.
C4_Witness ==
    \E r1, r2 \in Reqs :
        /\ Done(r1) /\ MetaFailed(r1)
        /\ up[r1].meta.ok /\ up[r1].meta.hasData
        /\ Done(r2) /\ MetaFailed(r2)
        /\ ~up[r2].meta.ok

\* C5: when the image cache step of a crawler's request fails, the document
\* is still rendered, with the original remote image URL as its image.
C5_ImageFailureKeepsOriginal ==
    \A r \in Reqs :
        (req[r].isBot /\ MetaSucceeded(r) /\ ImageStepFailed(r))
        => /\ Done(r)
           /\ Len(res[r]) = 1
           /\ res[r][1].kind = "html"
           /\ loc[r].originalImageUrl \in ImageUrls
           /\ res[r][1].img = loc[r].originalImageUrl
           /\ res[r][1].ogImage = loc[r].originalImageUrl

\* C5 witness: the download failed for one request and the write for another.
C5_Witness ==
    \E r1, r2 \in Reqs :
        /\ Done(r1) /\ up[r1].img = "download error"
        /\ Done(r2) /\ up[r2].toFile = "write error"

\* A terminal response of the route: the SPA entry document, the rendered
\* document or a redirect.
Terminal(x) ==
    /\ x.kind \in {"file", "html", "redirect"}
    /\ x.kind = "file" => x.file = SpaDocument

\* C6: every request received is eventually answered, by exactly one
\* response, which is the SPA entry document, the rendered document or a
\* redirect; no request is ever answered twice.  (A handler never leaves
\* "done", so "infinitely often not received or answered" says that a
\* received request is eventually, and from then on, answered.)
C6_ExactlyOneResponse ==
    /\ [](\A r \in Reqs :
            /\ Len(res[r]) <= 1
            /\ \A i \in 1..Len(res[r]) : Terminal(res[r][i])
            /\ Done(r) => Len(res[r]) = 1)
    /\ \A r \in Reqs : []<>(pc[r] = "idle" \/ (Done(r) /\ Len(res[r]) = 1))

\* C6 witness: one request was answered after its metadata fetch failed,
\* another after its image was written.
C6_Witness ==
    \E r1, r2 \in Reqs :
        /\ Done(r1) /\ MetaFailed(r1) /\ Len(res[r1]) = 1
        /\ Done(r2) /\ up[r2].toFile = "ok" /\ Len(res[r2]) = 1

\* The fixed fallback title and description of an entity kind.
FallbackTitle(branch) ==
    CASE branch = "product" -> "Product on GreepPay"
      [] branch = "event" -> "Event on GreepPay"
      [] branch = "business" -> "Business on GreepPay"

FallbackDescription(branch) ==
    CASE branch = "product" -> "Check out this amazing product on our Greep"
      [] branch = "event" -> "Check out this amazing event on our Greep"
      [] branch = "business" -> "Discover this business on our Greep"

\* The upstream name field of the request's entity.
UpstreamName(r) ==
    IF loc[r].branch = "business"
    THEN up[r].meta.data.business_name
    ELSE up[r].meta.data.name

\* C7: in a rendered document, a falsy upstream name gives the fallback title
\* of the entity kind, and a falsy description the fallback description.
C7_FallbackTitleAndDescription ==
    \A r \in Reqs :
        (Done(r) /\ MetaSucceeded(r) /\ res[r][1].kind = "html")
        => /\ ~Truthy(UpstreamName(r))
                => res[r][1].title = FallbackTitle(loc[r].branch)
           /\ ~Truthy(up[r].meta.data.description)
                => res[r][1].description = FallbackDescription(loc[r].branch)

\* C8: a crawler's request to /products/{id} whose metadata fetch returned a
\* valid product is answered by the rendered document, titled after the
\* product name, with og:url {APP_BASE_URL}/products/{id}?resolved=true,
\* whatever the outcome of the image cache step.
C8_ProductDocument ==
    \A r \in Reqs :
        ( /\ Done(r)
          /\ req[r].isBot
          /\ env = AppBase
          /\ ~CarriesResolved(req[r].url)
          /\ IsEntityPath(req[r].url, "products")
          /\ MetaSucceeded(r) )
        => /\ Len(res[r]) = 1
           /\ res[r][1].kind = "html"
           /\ res[r][1].ogUrl = CanonicalOf(req[r].url)
           /\ Truthy(up[r].meta.data.name)
                => res[r][1].title = "Buy " \o up[r].meta.data.name \o " on GreepPay"

\* C8 witness: a product document was rendered after a failed image step,
\* another with the cached image.
C8_Witness ==
    \E r1, r2 \in Reqs :
        /\ Done(r1) /\ IsEntityPath(req[r1].url, "products")
        /\ MetaSucceeded(r1) /\ ImageStepFailed(r1)
        /\ Truthy(up[r1].meta.data.name)
        /\ Done(r2) /\ IsEntityPath(req[r2].url, "products")
        /\ MetaSucceeded(r2) /\ ReturnedPath(r2)

\* C9: whenever compressImageFromUrl returns the cache path to a request,
\* whose document then references the /seo-img/ file, no other call in
\* flight has left that file partially written.
C9_NoPartialFileReturned ==
    [][\A r \in Reqs :
          (~Done(r) /\ Done(r)' /\ ReturnedPath(r)')
          => fs'[Basename(loc'[r].outputPath)] # "partial"]_vars

\* C10: the document of a crawler's request to events/{id} carries
\* {APP_BASE_URL}/events/{id}?resolved=true as og:url and as its link.
C10_EventCanonicalUrl ==
    \A r \in Reqs :
        ( /\ Done(r)
          /\ req[r].isBot
          /\ IsEntityPath(req[r].url, "events")
          /\ MetaSucceeded(r) )
        => /\ res[r][1].ogUrl = CanonicalOf(req[r].url)
           /\ res[r][1].link = CanonicalOf(req[r].url)

====
